---- MODULE Spec2Model ----
(***************************************************************************)
(* Artist location resolution of listening-activity-map:                   *)
(*   lib/musicbrainzDB.ts   the artists table and the disambiguation       *)
(*   lib/artistLocation.ts  the session cache in front of it               *)
(*   lib/artistLocationDB.ts the JSON location file                        *)
(*                                                                         *)
(* Strings are TLA+ strings, artist names are sequences of characters so   *)
(* that toLowerCase().trim() is computed.  Coordinates are integers in     *)
(* micro-degrees (30.27 is 30270000).                                      *)
(***************************************************************************)
EXTENDS Integers, Sequences, FiniteSets, TLC

\* null / undefined of a string-valued field
Null == "<null>"

\* null of a number-valued field (lat, lng); no coordinate has this value
NullNum == 999999999

-----------------------------------------------------------------------------
(* JavaScript truthiness and the || operator *)

Truthy(s) == s # Null /\ s # ""

NumTruthy(x) == x # NullNum /\ x # 0

Or(a, b) == IF Truthy(a) THEN a ELSE b

NumOr(a, b) == IF NumTruthy(a) THEN a ELSE b

-----------------------------------------------------------------------------
(* artistName.toLowerCase().trim() *)

ToLowerChar(c) ==
    CASE c = "A" -> "a"
      [] c = "I" -> "i"
      [] c = "M" -> "m"
      [] c = "R" -> "r"
      [] OTHER -> c

ToLowerCase(s) == [i \in 1..Len(s) |-> ToLowerChar(s[i])]

IsSpace(c) == c = " "

RECURSIVE TrimStart(_)
TrimStart(s) ==
    IF s # <<>> /\ IsSpace(Head(s)) THEN TrimStart(Tail(s)) ELSE s

RECURSIVE TrimEnd(_)
TrimEnd(s) ==
    IF s # <<>> /\ IsSpace(s[Len(s)]) THEN TrimEnd(SubSeq(s, 1, Len(s) - 1)) ELSE s

Trim(s) == TrimEnd(TrimStart(s))

Normalize(artistName) == Trim(ToLowerCase(artistName))

-----------------------------------------------------------------------------
(* The tables of getLocationFromMusicBrainzDB *)

knownCountries ==
    { "United States", "United Kingdom", "Canada", "Australia", "Germany", "France", "Japan",
      "Italy", "Spain", "Netherlands", "Sweden", "Norway", "Denmark", "Finland", "Poland",
      "Brazil", "Mexico", "Argentina", "India", "China", "South Korea", "Russia", "Belgium",
      "Switzerland", "Austria", "Portugal", "Greece", "Ireland", "New Zealand", "South Africa",
      "Turkey", "Indonesia", "Thailand", "Vietnam", "Philippines", "Chile", "Colombia", "Peru" }

countryCodePairs ==
    { <<"US", "United States">>, <<"GB", "United Kingdom">>, <<"CA", "Canada">>, <<"AU", "Australia">>,
      <<"DE", "Germany">>, <<"FR", "France">>, <<"JP", "Japan">>, <<"IT", "Italy">>, <<"ES", "Spain">>,
      <<"NL", "Netherlands">>, <<"SE", "Sweden">>, <<"NO", "Norway">>, <<"DK", "Denmark">>, <<"FI", "Finland">>,
      <<"PL", "Poland">>, <<"BR", "Brazil">>, <<"MX", "Mexico">>, <<"AR", "Argentina">>, <<"IN", "India">>,
      <<"CN", "China">>, <<"KR", "South Korea">>, <<"RU", "Russia">>, <<"IE", "Ireland">>, <<"NZ", "New Zealand">>,
      <<"ZA", "South Africa">>, <<"TR", "Turkey">>, <<"ID", "Indonesia">>, <<"TH", "Thailand">>, <<"VN", "Vietnam">>,
      <<"PH", "Philippines">>, <<"CL", "Chile">>, <<"CO", "Colombia">>, <<"PE", "Peru">> }

\* countryCodeMap[code]; Null when the code has no entry
countryCodeMap(code) ==
    IF \E p \in countryCodePairs : p[1] = code
    THEN (CHOOSE p \in countryCodePairs : p[1] = code)[2]
    ELSE Null

\* the override table, keyed by normalized name
MiaKey == <<"m", ".", "i", ".", "a", ".">>

MiaKey2 == <<"m", ".", "i", ".", "a">>

\* (record constructors list their fields in the order TLC keeps them in)
Loc(lat, lng, city, country) ==
    [lat |-> lat, lng |-> lng, city |-> city, country |-> country, kind |-> "loc"]

NullLoc == [kind |-> "null"]

\* the lowercase property names an object literal inherits from
\* Object.prototype with a truthy value: the constructor function and the
\* prototype object
ConstructorKey == <<"c", "o", "n", "s", "t", "r", "u", "c", "t", "o", "r">>

ProtoKey == <<"_", "_", "p", "r", "o", "t", "o", "_", "_">>

ObjectPrototypeKeys == {ConstructorKey, ProtoKey}

\* what such a property holds: a function or an object without lat and lng
Inherited(key) == [kind |-> "inherited", key |-> key]

\* specialCases[normalizedName]: the property lookup on the object literal
specialCases(normalizedName) ==
    IF normalizedName \in {MiaKey, MiaKey2}
    THEN Loc(51507400, -127800, "London", "United Kingdom")
    ELSE IF normalizedName \in ObjectPrototypeKeys
    THEN Inherited(normalizedName)
    ELSE NullLoc

-----------------------------------------------------------------------------
(* The disambiguation of a row that has coordinates: the candidate pair of  *)
(* the precedence branches, then the correction passes in source order.     *)

Pair(city, country) == [city |-> city, country |-> country]

\* a resolver without the first priority: the stored pair is never trusted
TrustedNever(row) == FALSE

TrustedStoredPair(row) ==
    /\ Truthy(row.city) /\ Truthy(row.country)
    /\ row.city # row.country
    /\ row.city \notin knownCountries
    /\ row.country \in knownCountries

Candidate(row) ==
    IF TrustedStoredPair(row)
    THEN Pair(row.city, row.country)
    ELSE IF Truthy(row.begin_area_name) /\ Truthy(row.area_name)
    THEN Pair(row.begin_area_name,
              IF row.area_name \in knownCountries
              THEN row.area_name
              ELSE Or(row.country_code, row.area_name))
    ELSE IF Truthy(row.begin_area_name)
    THEN Pair(row.begin_area_name,
              Or(row.country, Or(row.area_name, Or(row.country_code, Null))))
    ELSE IF Truthy(row.area_name)
    THEN IF row.area_name \in knownCountries
         THEN Pair(Or(row.city, Or(row.begin_area_name, Null)), row.area_name)
         ELSE Pair(row.area_name,
                   IF Truthy(row.country) /\ row.country \in knownCountries
                      /\ row.country # row.area_name
                   THEN row.country
                   ELSE IF Truthy(row.country_code) THEN row.country_code ELSE Null)
    ELSE Pair(Or(row.city, Or(row.begin_area_name, Null)),
              Or(row.country, Or(row.country_code, Null)))

\* SwapPass without the exchange
SwapPassNever(p) == p

SwapPass(p) ==
    IF Truthy(p.country) /\ p.country \notin knownCountries
       /\ Truthy(p.city) /\ p.city \in knownCountries
    THEN Pair(p.country, p.city)
    ELSE p

CityInCountryPass(p) ==
    IF Truthy(p.country) /\ p.country \notin knownCountries /\ ~Truthy(p.city)
    THEN Pair(p.country, Null)
    ELSE p

DuplicateCollapse(p) ==
    IF Truthy(p.city) /\ Truthy(p.country) /\ p.city = p.country
       /\ p.city \notin knownCountries
    THEN Pair(p.city, Null)
    ELSE p

CodeMapping(p, row) ==
    IF Truthy(row.country_code) /\ ~Truthy(p.country)
    THEN Pair(p.city, Or(countryCodeMap(row.country_code), row.country_code))
    ELSE p

InUSBox(lat, lng) ==
    lat >= 24396308 /\ lat <= 49384358 /\ lng >= -125000000 /\ lng <= -66934570

InUKBox(lat, lng) ==
    lat >= 49800000 /\ lat <= 60900000 /\ lng >= -8200000 /\ lng <= 1800000

InCanadaBox(lat, lng) ==
    lat >= 41700000 /\ lat <= 83100000 /\ lng >= -141000000 /\ lng <= -52600000

\* CoordinateInference trying the Canada box before the other two
CoordinateInferenceCanadaFirst(p, row) ==
    IF Truthy(p.city) /\ ~Truthy(p.country) /\ NumTruthy(row.lat) /\ NumTruthy(row.lng)
    THEN IF InCanadaBox(row.lat, row.lng) THEN Pair(p.city, "Canada")
         ELSE IF InUSBox(row.lat, row.lng) THEN Pair(p.city, "United States")
         ELSE IF InUKBox(row.lat, row.lng) THEN Pair(p.city, "United Kingdom")
         ELSE p
    ELSE p

CoordinateInference(p, row) ==
    IF Truthy(p.city) /\ ~Truthy(p.country) /\ NumTruthy(row.lat) /\ NumTruthy(row.lng)
    THEN IF InUSBox(row.lat, row.lng) THEN Pair(p.city, "United States")
         ELSE IF InUKBox(row.lat, row.lng) THEN Pair(p.city, "United Kingdom")
         ELSE IF InCanadaBox(row.lat, row.lng) THEN Pair(p.city, "Canada")
         ELSE p
    ELSE p

FinalCheck(p, row) ==
    IF Truthy(p.city) /\ Truthy(p.country) /\ p.city = p.country /\ Truthy(row.country_code)
    THEN IF Truthy(countryCodeMap(row.country_code))
         THEN Pair(p.city, countryCodeMap(row.country_code))
         ELSE Pair(p.city, row.country_code)
    ELSE p

LastResort(p, row) ==
    IF Truthy(p.city) /\ Truthy(p.country) /\ p.city = p.country
       /\ p.city \notin knownCountries
    THEN IF Truthy(row.country_code)
         THEN Pair(p.city, Or(countryCodeMap(row.country_code), Null))
         ELSE Pair(p.city, Null)
    ELSE p

\* the pair before the code mapping: passes a, b, c
Corrected(row) == DuplicateCollapse(CityInCountryPass(SwapPass(Candidate(row))))

\* the pair before the coordinate inference
Mapped(row) == CodeMapping(Corrected(row), row)

Disambiguate(row) ==
    LastResort(FinalCheck(CoordinateInference(Mapped(row), row), row), row)

\* HasCoordinates with || in place of &&
HasEitherCoordinate(row) == NumTruthy(row.lat) \/ NumTruthy(row.lng)

HasCoordinates(row) == NumTruthy(row.lat) /\ NumTruthy(row.lng)

NoRow == [kind |-> "norow"]

\* what getLocationFromMusicBrainzDB returns for the queried row
LocationOfRow(row) ==
    IF row # NoRow /\ HasCoordinates(row)
    THEN Loc(row.lat, row.lng, Disambiguate(row).city, Disambiguate(row).country)
    ELSE NullLoc

-----------------------------------------------------------------------------
(* The inputs *)

AirName == <<"A", "i", "r">>

AirPadded == <<" ", "a", "i", "r">>

MiaName == <<"M", ".", "I", ".", "A", ".">>

ArtistNames == {AirName, AirPadded, MiaName}

Keys == {Normalize(n) : n \in ArtistNames}

AirKey == <<"a", "i", "r">>

\* values of the text columns area_name, begin_area_name, city, country
TextValues == {Null, "Austin", "London", "United States", "United Kingdom", "GB"}

\* values of country_code: absent, a code of the map, a code without entry
CodeValues == {Null, "GB", "XX"}

\* 0, Austin, a latitude in both the US and the Canada box, London
LatValues == {NullNum, 0, 30270000, 45000000, 51500000}

\* 0, Austin, London
LngValues == {NullNum, 0, -97740000, -120000}

Row(name, normalizedName, mbid, area, begin, code, lat, lng, city, country) ==
    [lat |-> lat, lng |-> lng, city |-> city, country |-> country, kind |-> "row",
     begin_area_name |-> begin, area_name |-> area, country_code |-> code, name |-> name,
     mbid |-> mbid, normalized_name |-> normalizedName]

\* SELECT ... FROM artists WHERE normalized_name = ? and .get(): the row
\* with that normalized_name, NoRow when there is none
SelectByNormalizedName(table, normalizedName) ==
    IF \E r \in table : r.normalized_name = normalizedName
    THEN CHOOSE r \in table : r.normalized_name = normalizedName
    ELSE NoRow

\* a plain INSERT into a table without the UNIQUE constraint
InsertPlain(table, row) == table \cup {row}

\* an upsert that keeps the old value of every column written as null
\* (ON CONFLICT DO UPDATE SET col = COALESCE(excluded.col, col))
InsertCoalesce(table, row) ==
    LET old == SelectByNormalizedName(table, row.normalized_name)
        merged == [row EXCEPT !.mbid = Or(row.mbid, old.mbid),
                              !.area_name = Or(row.area_name, old.area_name),
                              !.begin_area_name = Or(row.begin_area_name, old.begin_area_name),
                              !.country_code = Or(row.country_code, old.country_code),
                              !.lat = IF row.lat = NullNum THEN old.lat ELSE row.lat,
                              !.lng = IF row.lng = NullNum THEN old.lng ELSE row.lng,
                              !.city = Or(row.city, old.city),
                              !.country = Or(row.country, old.country)]
    IN  IF old = NoRow
        THEN table \cup {row}
        ELSE {r \in table : r.normalized_name # row.normalized_name} \cup {merged}

\* a write that replaces the whole table by its row
InsertReplaceAll(table, row) == {row}

\* INSERT OR REPLACE INTO artists: normalized_name is UNIQUE, the row in
\* conflict is deleted and the new row inserted
InsertOrReplace(table, row) ==
    {r \in table : r.normalized_name # row.normalized_name} \cup {row}

\* every row over the value sets, stored for the artist Air
AllRows ==
    { Row(AirName, AirKey, Null, a, b, c, lat, lng, ci, co) :
        a \in TextValues, b \in TextValues, c \in CodeValues,
        lat \in LatValues, lng \in LngValues, ci \in TextValues, co \in TextValues }

\* the argument lists saveLocationToMusicBrainzDB is called with
SavedFields ==
    { \* resolved pair with coordinates
      [code |-> Null, lat |-> 30270000, lng |-> -97740000, city |-> "Austin",
       country |-> "United States", mbid |-> "mb-1", area |-> Null, begin |-> Null],
      \* area fields and code with coordinates
      [code |-> "GB", lat |-> 51500000, lng |-> -120000, city |-> "London",
       country |-> "United Kingdom", mbid |-> "mb-2", area |-> "United Kingdom",
       begin |-> "London"],
      \* area known, coordinates pending
      [code |-> "GB", lat |-> NullNum, lng |-> NullNum, city |-> Null,
       country |-> "United Kingdom", mbid |-> Null, area |-> "United Kingdom",
       begin |-> Null],
      \* only one coordinate
      [code |-> Null, lat |-> 51500000, lng |-> NullNum, city |-> "London",
       country |-> Null, mbid |-> Null, area |-> Null, begin |-> Null] }

-----------------------------------------------------------------------------
(* The state *)

VARIABLES
    artists,        \* the artists table: the set of its rows
    db,             \* musicbrainzDB.ts: the database handle has been opened
    locationCache,  \* artistLocation.ts: Map from artist name to location or null
    locationDB,     \* artistLocationDB.ts: the in-memory JSON map
    dbLoaded,       \* artistLocationDB.ts: the JSON file has been loaded
    jsonFile,       \* content of data/artist-locations.json
    lastCall,       \* the most recent call and what it returned
    first,          \* per name, the result of the first completed getArtistLocation
    lastWrite,      \* per normalized name, the row of the last completed write
    memo,           \* the first row a lookup read, with the location returned
    totalArtists,   \* page: length of the artist list handed to the background fetch
    startIndex,     \* page: start index of the next batch
    totalLocationsFound, \* page: locations counted over the answered batches
    located,        \* page: indices of the list whose artist has got a location
    fetchState,     \* page: "idle", "loop" or "done"
    requested,      \* the start indices sent to /api/locations, in order
    skipped         \* the start indices whose batch failed or timed out

\* the state of fetchLocationsInBackground
fetchVars ==
    <<totalArtists, startIndex, totalLocationsFound, located, fetchState, requested,
      skipped>>

vars == <<artists, db, locationCache, locationDB, dbLoaded, jsonFile, lastCall, first,
          lastWrite, memo, fetchVars>>

\* no background fetch has been started
NoFetch ==
    /\ totalArtists = 0
    /\ startIndex = 0
    /\ totalLocationsFound = 0
    /\ located = {}
    /\ fetchState = "idle"
    /\ requested = <<>>
    /\ skipped = {}

\* a key without entry in a Map or object
Absent == [kind |-> "absent"]

\* the call threw instead of returning
Thrown == [kind |-> "error"]

\* op and name: the call; up: the store could be opened and queried during
\* it; result: what it returned; queried: it sent a query to the store;
\* row: the row it read or wrote; before: the row a write found under its key;
\* wrote: it rewrote the JSON location file
NoCall ==
    [row |-> NoRow, name |-> <<>>, op |-> "none", up |-> TRUE, result |-> Absent,
     queried |-> FALSE, before |-> NoRow, wrote |-> FALSE]

Call(op, name, up, result, queried, row, before) ==
    [row |-> row, name |-> name, op |-> op, up |-> up, result |-> result,
     queried |-> queried, before |-> before, wrote |-> FALSE]

\* the call went through saveDatabase()
Wrote(call) == [call EXCEPT !.wrote = TRUE]

Init ==
    /\ artists = {}
    /\ db = FALSE
    /\ locationCache = [n \in ArtistNames |-> Absent]
    /\ locationDB = [k \in Keys |-> Absent]
    /\ dbLoaded = FALSE
    /\ jsonFile = [k \in Keys |-> Absent]
    /\ lastCall = NoCall
    /\ first = [n \in ArtistNames |-> Absent]
    /\ lastWrite = [k \in Keys |-> Absent]
    /\ memo = Absent
    /\ NoFetch

-----------------------------------------------------------------------------
(* musicbrainzDB.ts.  up: the database file can be opened and queried       *)
(* during this call; better-sqlite3 throws otherwise.                       *)

\* getDatabase() throws: no handle yet and the file cannot be opened
GetDatabaseThrows(up) == ~db /\ ~up

\* a lookup that catches its exception and answers null
OutcomeCaught(result, handle, queried, row) ==
    [row |-> row, db |-> handle, result |-> IF result = Thrown THEN NullLoc ELSE result,
     queried |-> queried]

Outcome(result, handle, queried, row) ==
    [row |-> row, db |-> handle, result |-> result, queried |-> queried]

\* getLocationFromMusicBrainzDB consulting the override table only when the
\* table has no location for the name
getLocationRowFirst(artistName, up) ==
    LET normalizedName == Normalize(artistName)
    IN  IF GetDatabaseThrows(up)
        THEN Outcome(Thrown, FALSE, FALSE, NoRow)
        ELSE IF ~up
        THEN Outcome(Thrown, TRUE, TRUE, NoRow)
        ELSE IF LocationOfRow(SelectByNormalizedName(artists, normalizedName)) # NullLoc
        THEN Outcome(LocationOfRow(SelectByNormalizedName(artists, normalizedName)), TRUE, TRUE,
                     SelectByNormalizedName(artists, normalizedName))
        ELSE IF specialCases(normalizedName) # NullLoc
        THEN Outcome(specialCases(normalizedName), TRUE, TRUE, NoRow)
        ELSE Outcome(NullLoc, TRUE, TRUE, SelectByNormalizedName(artists, normalizedName))

\* getLocationFromMusicBrainzDB whose answer depends on the module-level
\* handle: the call that opens the database finds no record
getLocationColdMiss(artistName, up) ==
    LET normalizedName == Normalize(artistName)
    IN  IF GetDatabaseThrows(up)
        THEN Outcome(Thrown, FALSE, FALSE, NoRow)
        ELSE IF specialCases(normalizedName) # NullLoc
        THEN Outcome(specialCases(normalizedName), TRUE, FALSE, NoRow)
        ELSE IF ~up
        THEN Outcome(Thrown, TRUE, TRUE, NoRow)
        ELSE Outcome(IF db THEN LocationOfRow(SelectByNormalizedName(artists, normalizedName))
                           ELSE NullLoc,
                     TRUE, TRUE, SelectByNormalizedName(artists, normalizedName))

getLocationFromMusicBrainzDB(artistName, up) ==
    LET normalizedName == Normalize(artistName)
    IN  IF GetDatabaseThrows(up)
        THEN Outcome(Thrown, FALSE, FALSE, NoRow)
        ELSE IF specialCases(normalizedName) # NullLoc
        THEN Outcome(specialCases(normalizedName), TRUE, FALSE, NoRow)
        ELSE IF ~up
        THEN Outcome(Thrown, TRUE, TRUE, NoRow)
        ELSE Outcome(LocationOfRow(SelectByNormalizedName(artists, normalizedName)), TRUE, TRUE,
                     SelectByNormalizedName(artists, normalizedName))

\* history of the lookups: the first row a lookup reads is remembered with
\* the location returned for it, when the run asked for it (memo = Pending)
Pending == [kind |-> "pending"]

Remember(r) ==
    memo' = IF memo = Pending /\ r.row # NoRow /\ r.result # Thrown
            THEN [kind |-> "read", row |-> r.row, result |-> r.result]
            ELSE memo

GetLocationFromMusicBrainzDB(artistName, up) ==
    LET r == getLocationFromMusicBrainzDB(artistName, up)
    IN  /\ db' = r.db
        /\ lastCall' = Call("getLocationFromMusicBrainzDB", artistName, up, r.result,
                            r.queried, r.row, NoRow)
        /\ Remember(r)
        /\ UNCHANGED <<artists, locationCache, locationDB, dbLoaded, jsonFile, first,
                       lastWrite, fetchVars>>

SaveLocationToMusicBrainzDB(artistName, f, up) ==
    LET normalizedName == Normalize(artistName)
        row == Row(artistName, normalizedName, f.mbid, f.area, f.begin, f.code,
                   f.lat, f.lng, f.city, f.country)
        before == SelectByNormalizedName(artists, normalizedName)
    IN  IF GetDatabaseThrows(up)
        THEN /\ lastCall' = Call("saveLocationToMusicBrainzDB", artistName, up, Thrown,
                                 FALSE, NoRow, before)
             /\ UNCHANGED <<artists, db, locationCache, locationDB, dbLoaded, jsonFile,
                            first, lastWrite, memo, fetchVars>>
        ELSE /\ db' = TRUE
             /\ IF up
                THEN /\ artists' = InsertOrReplace(artists, row)
                     /\ lastWrite' = [lastWrite EXCEPT ![normalizedName] = row]
                     /\ lastCall' = Call("saveLocationToMusicBrainzDB", artistName, up,
                                         Absent, FALSE, row, before)
                ELSE /\ lastCall' = Call("saveLocationToMusicBrainzDB", artistName, up,
                                         Thrown, FALSE, NoRow, before)
                     /\ UNCHANGED <<artists, lastWrite>>
             /\ UNCHANGED <<locationCache, locationDB, dbLoaded, jsonFile, first, memo, fetchVars>>

-----------------------------------------------------------------------------
(* artistLocationDB.ts *)

\* loadDatabase(): the in-memory map, read from the file on first use
loadDatabase == IF dbLoaded THEN locationDB ELSE jsonFile

\* db[normalizedName] !== location for a location the lookup has just built:
\* !== compares object identity, and the new object is never the stored one,
\* whatever their fields
IsOtherObject(stored, location) == TRUE

\* saveLocationToDB that updates the in-memory map and skips saveDatabase()
SaveLocationInMemory(artistName, location) ==
    LET normalizedName == Normalize(artistName)
    IN  /\ locationDB' = [loadDatabase EXCEPT ![normalizedName] = location]
        /\ dbLoaded' = TRUE
        /\ jsonFile' = jsonFile

\* saveLocationToDB with a location object created by this lookup: it is
\* never the object already held (!== on references), so it is stored and
\* the file is rewritten
SaveFreshLocationToDB(artistName, location) ==
    LET normalizedName == Normalize(artistName)
    IN  IF IsOtherObject(loadDatabase[normalizedName], location)
        THEN /\ locationDB' = [loadDatabase EXCEPT ![normalizedName] = location]
             /\ dbLoaded' = TRUE
             /\ jsonFile' = locationDB'
        ELSE /\ locationDB' = loadDatabase
             /\ dbLoaded' = TRUE
             /\ UNCHANGED jsonFile

-----------------------------------------------------------------------------
(* artistLocation.ts *)

\* the key of the session cache
CacheKey(artistName) == artistName

\* CacheHas testing the cached value instead of the presence of the key
CacheHasTruthy(cache, artistName) == cache[CacheKey(artistName)] \notin {Absent, NullLoc}

\* a cache whose entries are dropped when the table says something else
CacheHasFresh(cache, artistName) ==
    /\ cache[CacheKey(artistName)] # Absent
    /\ cache[CacheKey(artistName)] =
           LocationOfRow(SelectByNormalizedName(artists, Normalize(artistName)))

CacheHas(cache, artistName) == cache[CacheKey(artistName)] # Absent

\* locationCache.get(artistName) || null
CacheGet(cache, artistName) ==
    IF cache[CacheKey(artistName)] \in {Absent, NullLoc}
    THEN NullLoc
    ELSE cache[CacheKey(artistName)]

\* a cache fill put off past a suspension point: not done yet when the
\* next call runs
CacheSetDeferred(cache, artistName, result) == cache

\* a cache that records found locations only
CacheSetFoundOnly(cache, artistName, result) ==
    IF result = NullLoc THEN cache ELSE [cache EXCEPT ![CacheKey(artistName)] = result]

\* locationCache.set(artistName, result), null included
CacheSet(cache, artistName, result) ==
    [cache EXCEPT ![CacheKey(artistName)] = result]

Completed(artistName, result) ==
    first' = IF first[artistName] = Absent
             THEN [first EXCEPT ![artistName] = result]
             ELSE first

GetArtistLocation(artistName, up) ==
    IF CacheHas(locationCache, artistName)
    THEN /\ lastCall' = Call("getArtistLocation", artistName, up,
                             CacheGet(locationCache, artistName), FALSE, NoRow, NoRow)
         /\ Completed(artistName, CacheGet(locationCache, artistName))
         /\ UNCHANGED <<artists, db, locationCache, locationDB, dbLoaded, jsonFile,
                        lastWrite, memo, fetchVars>>
    ELSE LET r == getLocationFromMusicBrainzDB(artistName, up)
         IN  /\ db' = r.db
             /\ lastCall' =
                    IF /\ r.result \notin {Thrown, NullLoc}
                       /\ IsOtherObject(loadDatabase[Normalize(artistName)], r.result)
                    THEN Wrote(Call("getArtistLocation", artistName, up, r.result,
                                    r.queried, r.row, NoRow))
                    ELSE Call("getArtistLocation", artistName, up, r.result,
                              r.queried, r.row, NoRow)
             /\ Remember(r)
             /\ UNCHANGED <<artists, lastWrite, fetchVars>>
             /\ IF r.result = Thrown
                THEN UNCHANGED <<locationCache, locationDB, dbLoaded, jsonFile, first>>
                ELSE /\ locationCache' = CacheSet(locationCache, artistName, r.result)
                     /\ Completed(artistName, r.result)
                     /\ IF r.result # NullLoc
                        THEN SaveFreshLocationToDB(artistName, r.result)
                        ELSE UNCHANGED <<locationDB, dbLoaded, jsonFile>>

-----------------------------------------------------------------------------
(* The scripts that fill the table *)

\* getAreaNameFromMusicBrainzDB: begin_area_name || area_name || country_code
getAreaNameFromMusicBrainzDB(table, artistName) ==
    LET row == SelectByNormalizedName(table, Normalize(artistName))
    IN  IF row = NoRow
        THEN Null
        ELSE Or(row.begin_area_name, Or(row.area_name, Or(row.country_code, Null)))

\* a listing that wants both coordinates null
getArtistsWithoutAnyCoordinate(table) ==
    {r.name : r \in {x \in table : x.lat = NullNum /\ x.lng = NullNum}}

\* SELECT name FROM artists WHERE lat IS NULL OR lng IS NULL
getArtistsWithoutCoordinates(table) ==
    {r.name : r \in {x \in table : x.lat = NullNum \/ x.lng = NullNum}}

Names(S) == [kind |-> "names", names |-> S]

GetArtistsWithoutCoordinates(up) ==
    IF GetDatabaseThrows(up) \/ ~up
    THEN /\ db' = ~GetDatabaseThrows(up)
         /\ lastCall' = Call("getArtistsWithoutCoordinates", <<>>, up, Thrown,
                             ~GetDatabaseThrows(up), NoRow, NoRow)
         /\ UNCHANGED <<artists, locationCache, locationDB, dbLoaded, jsonFile, first,
                        lastWrite, memo, fetchVars>>
    ELSE /\ db' = TRUE
         /\ lastCall' = Call("getArtistsWithoutCoordinates", <<>>, up,
                             Names(getArtistsWithoutCoordinates(artists)), TRUE,
                             NoRow, NoRow)
         /\ UNCHANGED <<artists, locationCache, locationDB, dbLoaded, jsonFile, first,
                        lastWrite, memo, fetchVars>>

\* what the geocoder answers for an area name: nothing, or a pair of numbers
NoCoordinates == [kind |-> "nocoordinates"]

Coordinates(lat, lng) == [lat |-> lat, lng |-> lng, kind |-> "coordinates"]

GeocoderAnswers ==
    { NoCoordinates,
      Coordinates(51500000, -120000),     \* London
      Coordinates(0, -78500000) }         \* a place on the equator

\* details of an artist as the MusicBrainz API returns them
ArtistDetails ==
    { [country |-> "GB", area |-> "United Kingdom", begin |-> "London", id |-> "mb-2"],
      [country |-> Null, area |-> "United States", begin |-> Null, id |-> "mb-1"],
      [country |-> "GB", area |-> Null, begin |-> Null, id |-> "mb-3"] }

\* processArtist of the bulk import, for the first search result with details
ProcessArtist(artistName, details, coordinates, up) ==
    IF Truthy(Or(details.begin, details.area))
    THEN SaveLocationToMusicBrainzDB(
             artistName,
             [code |-> Or(details.country, Null),
              lat |-> IF coordinates = NoCoordinates THEN NullNum
                      ELSE NumOr(coordinates.lat, NullNum),
              lng |-> IF coordinates = NoCoordinates THEN NullNum
                      ELSE NumOr(coordinates.lng, NullNum),
              city |-> Or(details.begin, Null),
              country |-> Or(details.area, Or(details.country, Null)),
              mbid |-> details.id,
              area |-> Or(details.area, Null),
              begin |-> Or(details.begin, Null)],
             up)
    ELSE /\ lastCall' = Call("processArtist", artistName, up, Absent, FALSE, NoRow, NoRow)
         /\ UNCHANGED <<artists, db, locationCache, locationDB, dbLoaded, jsonFile, first,
                        lastWrite, memo, fetchVars>>

\* one iteration of the geocoding script: an artist of the listing that has an
\* area name, the geocoder's answer for that name
GeocodeMissing(artistName, coordinates, up) ==
    LET areaName == getAreaNameFromMusicBrainzDB(artists, artistName)
    IN  /\ db
        /\ artistName \in getArtistsWithoutCoordinates(artists)
        /\ areaName # Null
        /\ Truthy(areaName)
        /\ IF coordinates # NoCoordinates
           THEN SaveLocationToMusicBrainzDB(
                    artistName,
                    [code |-> Null, lat |-> coordinates.lat, lng |-> coordinates.lng,
                     city |-> Null, country |-> areaName, mbid |-> Null, area |-> areaName,
                     begin |-> Null],
                    up)
           ELSE /\ lastCall' = Call("geocodeMissing", artistName, up, Absent, TRUE,
                                    NoRow, NoRow)
                /\ UNCHANGED <<artists, db, locationCache, locationDB, dbLoaded, jsonFile,
                               first, lastWrite, memo, fetchVars>>

\* the artist files of the MusicBrainz dump: area relations may carry
\* coordinates, and either number may be missing
DumpCoordinates(latitude, longitude) ==
    [kind |-> "coordinates", latitude |-> latitude, longitude |-> longitude]

DumpRelations ==
    { <<>>,
      <<NoCoordinates, DumpCoordinates(51500000, -120000)>>,
      <<DumpCoordinates(51500000, NullNum)>>,
      <<DumpCoordinates(51500000, NullNum), DumpCoordinates(30270000, -97740000)>> }

DumpAreas ==
    { [code |-> "GB", area |-> "United Kingdom", begin |-> "London", id |-> "mb-2"],
      [code |-> Null, area |-> Null, begin |-> Null, id |-> Null] }

\* the loop of extractLocationData over relations[i..]: lat and lng are
\* overwritten by every relation that has coordinates, until both are truthy
RECURSIVE extractCoordinates(_, _, _, _)
extractCoordinates(relations, i, lat, lng) ==
    IF i > Len(relations)
    THEN [lat |-> lat, lng |-> lng]
    ELSE IF relations[i] = NoCoordinates
    THEN extractCoordinates(relations, i + 1, lat, lng)
    ELSE IF /\ NumTruthy(NumOr(relations[i].latitude, NullNum))
            /\ NumTruthy(NumOr(relations[i].longitude, NullNum))
    THEN [lat |-> NumOr(relations[i].latitude, NullNum),
          lng |-> NumOr(relations[i].longitude, NullNum)]
    ELSE extractCoordinates(relations, i + 1,
                            NumOr(relations[i].latitude, NullNum),
                            NumOr(relations[i].longitude, NullNum))

extractLocationData(artist) ==
    LET c == extractCoordinates(artist.relations, 1, NullNum, NullNum)
    IN  [lat |-> c.lat, lng |-> c.lng, mbid |-> Or(artist.id, Null),
         areaName |-> Or(artist.area, Null), beginAreaName |-> Or(artist.begin, Null),
         countryCode |-> Or(artist.code, Null)]

\* the record importArtistsFromJSON pushes for an artist of a file
DumpRow(artist, d) ==
    Row(artist.name, Normalize(artist.name), d.mbid, d.areaName, d.beginAreaName,
        d.countryCode, d.lat, d.lng,
        Or(d.beginAreaName, Null),
        Or(d.areaName, Or(d.countryCode, Null)))

\* importArtistsFromJSON for one artist of a file: the script opens the
\* database file itself and inserts the extracted record
ImportArtistsFromJSON(name, area, relations, up) ==
    LET artist == [code |-> area.code, name |-> name, area |-> area.area,
                   begin |-> area.begin, id |-> area.id, relations |-> relations]
        before == SelectByNormalizedName(artists, Normalize(name))
    IN  \E row \in {DumpRow(artist, extractLocationData(artist))} :
            IF up
            THEN /\ artists' = InsertOrReplace(artists, row)
                 /\ lastWrite' = [lastWrite EXCEPT ![row.normalized_name] = row]
                 /\ lastCall' = Call("importArtistsFromJSON", name, up, Absent, FALSE,
                                     row, before)
                 /\ UNCHANGED <<db, locationCache, locationDB, dbLoaded, jsonFile,
                                first, memo, fetchVars>>
            ELSE /\ lastCall' = Call("importArtistsFromJSON", name, up, Thrown, FALSE,
                                     NoRow, before)
                 /\ UNCHANGED <<artists, db, locationCache, locationDB, dbLoaded,
                                jsonFile, first, lastWrite, memo, fetchVars>>

-----------------------------------------------------------------------------
(* scripts/export-musicbrainz-to-json.ts and the client lookup *)

\* the country names the export script tells apart from cities
exportKnownCountries ==
    { "United States", "United Kingdom", "Canada", "Australia", "Germany", "France", "Japan",
      "Italy", "Spain", "Netherlands", "Sweden", "Norway", "Denmark", "Finland", "Poland",
      "Brazil", "Mexico", "Argentina", "India", "China", "South Korea", "Russia" }

\* the three codes the export script maps, any other code is kept
exportCountryCode(code) ==
    IF code = "US" THEN "United States"
    ELSE IF code = "GB" THEN "United Kingdom"
    ELSE IF code = "CA" THEN "Canada"
    ELSE code

\* WHERE lat IS NOT NULL AND lng IS NOT NULL
exportRows(table) == {r \in table : r.lat # NullNum /\ r.lng # NullNum}

\* the pair the export script derives from the fields of a row
exportPair(row) ==
    LET city == Or(row.city, Or(row.begin_area_name, Null))
        country == Or(row.country, Or(row.area_name, Or(row.country_code, Null)))
    IN  IF Truthy(city) /\ Truthy(country) /\ city = country
           /\ city \notin exportKnownCountries
        THEN Pair(city, IF Truthy(row.country_code)
                        THEN exportCountryCode(row.country_code) ELSE Null)
        ELSE Pair(city, country)

\* the entry written under the normalized name of a row
exportEntry(row) ==
    IF row.normalized_name \in {MiaKey, MiaKey2}
    THEN Loc(row.lat, row.lng, "London", "United Kingdom")
    ELSE Loc(row.lat, row.lng, exportPair(row).city, exportPair(row).country)

\* the lookup map of the exported file
locationMap(table) ==
    [k \in {r.normalized_name : r \in exportRows(table)} |->
        exportEntry(SelectByNormalizedName(exportRows(table), k))]

Exported(map) == [kind |-> "exported", map |-> map]

\* the script opens the database file itself and exits when it is missing
ExportToJSON(up) ==
    /\ lastCall' = Call("exportToJSON", <<>>, up,
                        IF up THEN Exported(locationMap(artists)) ELSE Thrown,
                        up, NoRow, NoRow)
    /\ UNCHANGED <<artists, db, locationCache, locationDB, dbLoaded, jsonFile, first,
                   lastWrite, memo, fetchVars>>

\* locations[normalizedName] || null over the loaded file
getLocationFromMusicBrainzClient(locations, artistName) ==
    LET normalizedName == Normalize(artistName)
    IN  IF normalizedName \in DOMAIN locations THEN locations[normalizedName]
        ELSE IF normalizedName \in ObjectPrototypeKeys THEN Inherited(normalizedName)
        ELSE NullLoc

-----------------------------------------------------------------------------
(* The page's background location fetch and the /api/locations endpoint *)

batchSize == 25

\* longest artist list of the runs
MaxArtists == 60

\* the names of the list, repeated in this order
FetchNames == <<AirName, MiaName, AirPadded>>

\* artists[i].name of the list handed to the fetch
ArtistAt(i) == FetchNames[(i % Len(FetchNames)) + 1]

\* the indices of artists.slice(start, end) in a list of total artists
Slice(total, start, end) == {i \in 0..(total - 1) : start <= i /\ i < end}

\* the request did not come back: the fetch was aborted after 120 s or failed
Rejected == [ok |-> FALSE, status |-> 0]

\* POST /api/locations: one lookup per artist of the slice; an exception of a
\* lookup ends the handler with status 500
POST(total, start, size, up) ==
    LET artistsToProcess == Slice(total, start, start + size)
        results == [i \in artistsToProcess |->
                        getLocationFromMusicBrainzDB(ArtistAt(i), up).result]
    IN  IF \E i \in artistsToProcess : results[i] = Thrown
        THEN [ok |-> FALSE, status |-> 500]
        ELSE [locations |-> results, ok |-> TRUE, status |-> 200,
              processed |-> Cardinality(artistsToProcess), nextIndex |-> start + size,
              hasMore |-> start + size < total]

\* data.nextIndex || (startIndex + batchSize)
NextStart(nextIndex, start) == IF NumTruthy(nextIndex) THEN nextIndex ELSE start + batchSize

\* a loop that repeats the batch that failed
AfterFailureRetry(start) == start

\* startIndex += batchSize in the else branch and in the catch block
AfterFailure(start) == start + batchSize

\* the names of a response whose location has lat and lng
NamesFound(locations) ==
    {ArtistAt(i) : i \in {j \in DOMAIN locations : locations[j].kind = "loc"}}

\* one iteration of the while loop, up to the delay that ends it: the request
\* is answered by the endpoint or rejected
FetchBatch(answered, up) ==
    /\ fetchState = "loop"
    /\ startIndex < totalArtists
    /\ requested' = Append(requested, startIndex)
    /\ db' = (db \/ (answered /\ up))
    /\ \E response \in {IF answered THEN POST(totalArtists, startIndex, batchSize, up)
                                    ELSE Rejected} :
            IF response.ok
            THEN \E names \in {NamesFound(response.locations)} :
                    /\ totalLocationsFound' = totalLocationsFound + Cardinality(names)
                    /\ located' = located \cup
                                  {i \in 0..(totalArtists - 1) : ArtistAt(i) \in names}
                    /\ startIndex' = NextStart(response.nextIndex, startIndex)
                    /\ fetchState' = IF startIndex' >= totalArtists THEN "done" ELSE "loop"
                    /\ UNCHANGED skipped
            ELSE /\ startIndex' = AfterFailure(startIndex)
                 /\ skipped' = skipped \cup {startIndex}
                 /\ UNCHANGED <<totalLocationsFound, located, fetchState>>
    /\ UNCHANGED <<artists, locationCache, locationDB, dbLoaded, jsonFile, lastCall, first,
                   lastWrite, memo, totalArtists>>

\* the loop condition fails: the progress text is cleared
FetchCompleted ==
    /\ fetchState = "loop"
    /\ startIndex >= totalArtists
    /\ fetchState' = "done"
    /\ UNCHANGED <<artists, db, locationCache, locationDB, dbLoaded, jsonFile, lastCall,
                   first, lastWrite, memo, totalArtists, startIndex, totalLocationsFound,
                   located, requested, skipped>>

-----------------------------------------------------------------------------
(* The resolver with its writers *)

Next ==
    \E n \in ArtistNames, up \in BOOLEAN :
        \/ GetArtistLocation(n, up)
        \/ GetLocationFromMusicBrainzDB(n, up)
        \/ \E f \in SavedFields : SaveLocationToMusicBrainzDB(n, f, up)

Spec == Init /\ [][Next]_vars

(* The disambiguation alone: any row over the value sets is stored for Air  *)
(* and looked up.                                                           *)

InitDisambig ==
    /\ \E r \in AllRows : artists = {r}
    /\ db = FALSE
    /\ locationCache = [n \in ArtistNames |-> Absent]
    /\ locationDB = [k \in Keys |-> Absent]
    /\ dbLoaded = FALSE
    /\ jsonFile = [k \in Keys |-> Absent]
    /\ lastCall = NoCall
    /\ first = [n \in ArtistNames |-> Absent]
    /\ lastWrite = [k \in Keys |-> Absent]
    /\ memo = Absent
    /\ NoFetch

NextDisambig == GetLocationFromMusicBrainzDB(AirName, TRUE)

\* the table filled by the import and geocoding scripts, and listed
WriterNames == {AirName, MiaName}

NextWriters ==
    \E n \in WriterNames, up \in BOOLEAN :
        \/ \E d \in ArtistDetails, c \in GeocoderAnswers : ProcessArtist(n, d, c, up)
        \/ \E c \in GeocoderAnswers : GeocodeMissing(n, c, up)
        \/ \E a \in DumpAreas, r \in DumpRelations : ImportArtistsFromJSON(n, a, r, up)
        \/ GetArtistsWithoutCoordinates(up)

SpecWriters == Init /\ [][NextWriters]_vars

SpecDisambig == InitDisambig /\ [][NextDisambig]_vars

\* lookups of names that are also property names of every JavaScript object,
\* over a table with one record, for Air, M.I.A. or an artist called
\* Constructor
ConstructorName == <<"C", "o", "n", "s", "t", "r", "u", "c", "t", "o", "r">>

ProtoName == <<"_", "_", "p", "r", "o", "t", "o", "_", "_", " ">>

LookupNames == ArtistNames \cup {ConstructorName, ProtoName}

InitNames ==
    /\ \E f \in SavedFields, n \in {AirName, ConstructorName, MiaName} :
            artists = {Row(n, Normalize(n), f.mbid, f.area, f.begin, f.code,
                           f.lat, f.lng, f.city, f.country)}
    /\ db = FALSE
    /\ locationCache = [n \in ArtistNames |-> Absent]
    /\ locationDB = [k \in Keys |-> Absent]
    /\ dbLoaded = FALSE
    /\ jsonFile = [k \in Keys |-> Absent]
    /\ lastCall = NoCall
    /\ first = [n \in ArtistNames |-> Absent]
    /\ lastWrite = [k \in Keys |-> Absent]
    /\ memo = Absent
    /\ NoFetch

NextNames ==
    \E n \in LookupNames, up \in BOOLEAN : GetLocationFromMusicBrainzDB(n, up)

SpecNames == InitNames /\ [][NextNames]_vars

\* the export of a table with one record: any row over the value sets for
\* Air, or a saved record for M.I.A.
InitExport ==
    /\ \E r \in AllRows \cup
                { Row(MiaName, MiaKey, f.mbid, f.area, f.begin, f.code,
                      f.lat, f.lng, f.city, f.country) : f \in SavedFields } :
            artists = {r}
    /\ db = FALSE
    /\ locationCache = [n \in ArtistNames |-> Absent]
    /\ locationDB = [k \in Keys |-> Absent]
    /\ dbLoaded = FALSE
    /\ jsonFile = [k \in Keys |-> Absent]
    /\ lastCall = NoCall
    /\ first = [n \in ArtistNames |-> Absent]
    /\ lastWrite = [k \in Keys |-> Absent]
    /\ memo = Absent
    /\ NoFetch

NextExport == \E up \in BOOLEAN : ExportToJSON(up)

SpecExport == InitExport /\ [][NextExport]_vars

\* the background fetch over a list of up to MaxArtists artists and a table
\* with one record for Air
InitFetch ==
    /\ \E f \in SavedFields :
            artists = {Row(AirName, AirKey, f.mbid, f.area, f.begin, f.code,
                           f.lat, f.lng, f.city, f.country)}
    /\ db = FALSE
    /\ locationCache = [n \in ArtistNames |-> Absent]
    /\ locationDB = [k \in Keys |-> Absent]
    /\ dbLoaded = FALSE
    /\ jsonFile = [k \in Keys |-> Absent]
    /\ lastCall = NoCall
    /\ first = [n \in ArtistNames |-> Absent]
    /\ lastWrite = [k \in Keys |-> Absent]
    /\ memo = Absent
    /\ totalArtists \in 0..MaxArtists
    /\ startIndex = 0
    /\ totalLocationsFound = 0
    /\ located = {}
    /\ fetchState = "loop"
    /\ requested = <<>>
    /\ skipped = {}

NextFetch ==
    \/ \E answered \in BOOLEAN, up \in BOOLEAN : FetchBatch(answered, up)
    \/ FetchCompleted

SpecFetch == InitFetch /\ [][NextFetch]_vars

\* every request settles (answer, error or the 120 s abort) and every delay
\* ends, so an iteration that can run does run
SpecFetchFair == SpecFetch /\ WF_vars(NextFetch)

\* repeated lookups over a table that no one writes: one stored record for
\* Air, lookups of every name through both entry points, the store up or down
InitDeterminism ==
    /\ \E f \in SavedFields :
            artists = {Row(AirName, AirKey, f.mbid, f.area, f.begin, f.code,
                           f.lat, f.lng, f.city, f.country)}
    /\ db = FALSE
    /\ locationCache = [n \in ArtistNames |-> Absent]
    /\ locationDB = [k \in Keys |-> Absent]
    /\ dbLoaded = FALSE
    /\ jsonFile = [k \in Keys |-> Absent]
    /\ lastCall = NoCall
    /\ first = [n \in ArtistNames |-> Absent]
    /\ lastWrite = [k \in Keys |-> Absent]
    /\ memo = Pending
    /\ NoFetch

NextDeterminism ==
    \E n \in ArtistNames, up \in BOOLEAN :
        \/ GetLocationFromMusicBrainzDB(n, up)
        \/ GetArtistLocation(n, up)

SpecDeterminism == InitDeterminism /\ [][NextDeterminism]_vars

-----------------------------------------------------------------------------
(* Properties *)

\* the last call was getLocationFromMusicBrainzDB, it read a stored row and
\* returned a location
Resolved ==
    /\ lastCall.op = "getLocationFromMusicBrainzDB"
    /\ lastCall.row # NoRow
    /\ lastCall.result.kind = "loc"

\* the last call was a lookup, direct or through the session cache
IsLookup == lastCall.op \in {"getLocationFromMusicBrainzDB", "getArtistLocation"}

\* this step is a getArtistLocation call for artistName
ArtistLocationCall(artistName) ==
    /\ lastCall' # lastCall
    /\ lastCall'.op = "getArtistLocation"
    /\ lastCall'.name = artistName

Override == Loc(51507400, -127800, "London", "United Kingdom")

\* C1: a location resolved from a stored row never has city and country
\* both defined and equal
C1_NoDuplicate ==
    Resolved =>
        ~( /\ lastCall.result.city # Null
           /\ lastCall.result.country # Null
           /\ lastCall.result.city = lastCall.result.country )

\* when the row's country_code has an entry in the country-code map and
\* no text column of the row holds the code, the returned country is not the
\* raw code
CodeNeverRaw ==
    ( /\ Resolved
      /\ Truthy(lastCall.row.country_code)
      /\ countryCodeMap(lastCall.row.country_code) # Null
      /\ lastCall.row.country_code \notin
            {lastCall.row.area_name, lastCall.row.begin_area_name,
             lastCall.row.city, lastCall.row.country} )
    => lastCall.result.country # lastCall.row.country_code

\* the instance of the specification: country_code GB, city London, no
\* country, (51.5, -0.12) resolves with country United Kingdom
MappedExample ==
    ( /\ Resolved
      /\ lastCall.row.country_code = "GB" /\ lastCall.row.city = "London"
      /\ lastCall.row.country = Null /\ lastCall.row.area_name = Null
      /\ lastCall.row.begin_area_name = Null
      /\ lastCall.row.lat = 51500000 /\ lastCall.row.lng = -120000 )
    => lastCall.result.country = "United Kingdom"

\* C2: a country taken from a country_code that has an entry in the
\* country-code map is returned as the mapped display name, never as the raw
\* code; country_code GB with city London resolves to United Kingdom
C2_CodeIsMapped == MappedExample /\ CodeNeverRaw

\* C3: the city of a location resolved from a stored row, when defined, is
\* not a recognized country name
C3_CityNotCountry ==
    Resolved => lastCall.result.city \notin knownCountries

\* C4: the country of a location resolved from a stored row, when defined,
\* is a recognized country name or comes from the row's country_code (the
\* entry of the country-code map, or the code itself); no other text of the
\* row survives as country
C4_CountryClosedSet ==
    ( Resolved /\ lastCall.result.country # Null )
    => \/ lastCall.result.country \in knownCountries
       \/ /\ Truthy(lastCall.row.country_code)
          /\ lastCall.result.country \in
                {countryCodeMap(lastCall.row.country_code), lastCall.row.country_code}

\* C5: a lookup whose normalized key is m.i.a. that returns, returns the
\* override, without reading a row, whatever the table holds under that key
C5_OverridePrecedence ==
    ( /\ IsLookup
      /\ Normalize(lastCall.name) = MiaKey
      /\ lastCall.result # Thrown )
    => /\ lastCall.result = Override
       /\ lastCall.row = NoRow
       /\ ~lastCall.queried

\* C5 witness: the override was returned while the table holds a row with
\* other coordinates under m.i.a.
C5_Witness ==
    /\ IsLookup
    /\ lastCall.name = MiaName
    /\ lastCall.result = Override
    /\ SelectByNormalizedName(artists, MiaKey) # NoRow
    /\ HasCoordinates(SelectByNormalizedName(artists, MiaKey))
    /\ SelectByNormalizedName(artists, MiaKey).lat # Override.lat

\* C6: once getArtistLocation has completed for a name, every later
\* getArtistLocation call for that name returns the result of the first one
\* (null included) and performs no Store query
C6_CacheConsistency ==
    [][ \A n \in ArtistNames :
            ( first[n] # Absent /\ ArtistLocationCall(n) )
            => /\ lastCall'.result = first[n]
               /\ ~lastCall'.queried ]_vars

\* C6 witness: a null remembered from the first call is returned although
\* the table now holds a row with coordinates for the name
C6_Witness ==
    /\ lastCall.op = "getArtistLocation"
    /\ lastCall.name = AirName
    /\ lastCall.result = NullLoc
    /\ ~lastCall.queried
    /\ first[AirName] = NullLoc
    /\ SelectByNormalizedName(artists, AirKey) # NoRow
    /\ HasCoordinates(SelectByNormalizedName(artists, AirKey))

\* C7: after getArtistLocation has completed for one spelling, a call for
\* any spelling with the same normalized form performs no Store query
C7_NormalizedCacheKey ==
    [][ \A n, m \in ArtistNames :
            ( /\ Normalize(n) = Normalize(m)
              /\ first[m] # Absent
              /\ ArtistLocationCall(n)
              /\ lastCall'.result # Thrown )
            => ~lastCall'.queried ]_vars

\* C8: a stored row whose lat and lng are not both set resolves to null; the
\* lookup does not throw
C8_PartialCoordinatesNull ==
    ( /\ lastCall.op = "getLocationFromMusicBrainzDB"
      /\ lastCall.row # NoRow
      /\ (lastCall.row.lat = NullNum \/ lastCall.row.lng = NullNum) )
    => lastCall.result = NullLoc

\* C8 witness: a row with latitude, city, country and area but no longitude
\* was looked up and gave null
C8_Witness ==
    /\ lastCall.op = "getLocationFromMusicBrainzDB"
    /\ lastCall.row # NoRow
    /\ lastCall.row.lat = 51500000 /\ lastCall.row.lng = NullNum
    /\ lastCall.row.city = "London" /\ lastCall.row.country = "United Kingdom"
    /\ lastCall.row.area_name = "United Kingdom" /\ lastCall.row.country_code = "GB"
    /\ lastCall.result = NullLoc

\* C9: when the candidate pair has a recognized country name as city and a
\* set, unrecognized string as country, the location returned has the two
\* exchanged; city United States, country Austin without area fields
\* resolves to city Austin, country United States
C9_SwapCorrection ==
    /\ ( /\ Resolved
         /\ Truthy(Candidate(lastCall.row).city)
         /\ Candidate(lastCall.row).city \in knownCountries
         /\ Truthy(Candidate(lastCall.row).country)
         /\ Candidate(lastCall.row).country \notin knownCountries )
       => /\ lastCall.result.city = Candidate(lastCall.row).country
          /\ lastCall.result.country = Candidate(lastCall.row).city
    /\ ( /\ Resolved
         /\ lastCall.row.area_name = Null /\ lastCall.row.begin_area_name = Null
         /\ lastCall.row.city = "United States" /\ lastCall.row.country = "Austin" )
       => /\ lastCall.result.city = "Austin"
          /\ lastCall.result.country = "United States"

\* C9 witness: the row of the example was resolved
C9_Witness ==
    /\ Resolved
    /\ lastCall.row.area_name = Null /\ lastCall.row.begin_area_name = Null
    /\ lastCall.row.country_code = Null
    /\ lastCall.row.city = "United States" /\ lastCall.row.country = "Austin"
    /\ lastCall.row.lat = 30270000 /\ lastCall.row.lng = -97740000
    /\ lastCall.result.city = "Austin" /\ lastCall.result.country = "United States"

\* C10: when city is set and country undefined after the correction passes
\* and the code mapping, the returned country is that of the first box
\* holding the coordinates in the order United States, United Kingdom,
\* Canada, and undefined when no box holds them
C10_CoordinateInference ==
    ( /\ Resolved
      /\ Truthy(Mapped(lastCall.row).city)
      /\ ~Truthy(Mapped(lastCall.row).country) )
    => LET lat == lastCall.row.lat
           lng == lastCall.row.lng
           country == lastCall.result.country
       IN  /\ InUSBox(lat, lng) => country = "United States"
           /\ (~InUSBox(lat, lng) /\ InUKBox(lat, lng)) => country = "United Kingdom"
           /\ (~InUSBox(lat, lng) /\ ~InUKBox(lat, lng) /\ InCanadaBox(lat, lng))
                 => country = "Canada"
           /\ (~InUSBox(lat, lng) /\ ~InUKBox(lat, lng) /\ ~InCanadaBox(lat, lng))
                 => country = Null
           /\ (lat = 30270000 /\ lng = -97740000) => country = "United States"
           /\ (lat = 45000000 /\ lng = -97740000) => country = "United States"
           /\ (lat = 30270000 /\ lng = -120000) => country = Null

\* C10 witness: city Austin without any country signal at a point lying in
\* both the US and the Canada box resolved to United States
C10_Witness ==
    /\ Resolved
    /\ lastCall.row.city = "Austin" /\ lastCall.row.country = Null
    /\ lastCall.row.country_code = Null
    /\ lastCall.row.area_name = Null /\ lastCall.row.begin_area_name = Null
    /\ lastCall.row.lat = 45000000 /\ lastCall.row.lng = -97740000
    /\ InUSBox(lastCall.row.lat, lastCall.row.lng)
    /\ InCanadaBox(lastCall.row.lat, lastCall.row.lng)
    /\ lastCall.result.country = "United States"

C12_AbsentIsNull ==
    [][\A n \in ArtistNames :
          (/\ ArtistLocationCall(n)
           /\ specialCases(Normalize(n)) = NullLoc
           /\ SelectByNormalizedName(artists, Normalize(n)) = NoRow
           /\ (lastCall'.up \/ CacheHas(locationCache, n)))
              => /\ lastCall'.result = NullLoc
                 /\ locationCache'[CacheKey(n)] = NullLoc]_vars

\* Air has no record: the call queried the store, returned null and cached it
C12_Witness ==
    /\ lastCall.op = "getArtistLocation"
    /\ lastCall.name = AirName
    /\ lastCall.queried
    /\ lastCall.row = NoRow
    /\ lastCall.result = NullLoc
    /\ SelectByNormalizedName(artists, AirKey) = NoRow
    /\ locationCache[AirName] = NullLoc

\* C13: after any sequence of saveLocationToMusicBrainzDB calls the table
\* holds at most one record per normalized key, stored under the lowercased,
\* trimmed name: spellings that differ in case or surrounding whitespace
\* update the same record.
C13_OneRecordPerKey ==
    /\ \A r1, r2 \in artists : r1.normalized_name = r2.normalized_name => r1 = r2
    /\ \A r \in artists : r.normalized_name = Normalize(r.name)

\* ' air' was saved over the record saved as 'Air': one record, the new one
C13_Witness ==
    /\ lastCall.op = "saveLocationToMusicBrainzDB"
    /\ lastCall.name = AirPadded
    /\ lastCall.before # NoRow
    /\ lastCall.before.name = AirName
    /\ Cardinality({r \in artists : r.normalized_name = AirKey}) = 1
    /\ SelectByNormalizedName(artists, AirKey).name = AirPadded

\* C14: a write to an existing key replaces the whole record: the record
\* under a key is the record of the last write to it, a field written as null
\* included, and a lookup that queries the store after it reads that record
\* and resolves from it alone.
C14_LastWriteWins ==
    /\ \A k \in Keys :
          lastWrite[k] # Absent => SelectByNormalizedName(artists, k) = lastWrite[k]
    /\ (/\ lastCall.op \in {"getLocationFromMusicBrainzDB", "getArtistLocation"}
        /\ lastCall.queried
        /\ lastCall.result # Thrown
        /\ lastWrite[Normalize(lastCall.name)] # Absent)
           => /\ lastCall.row = lastWrite[Normalize(lastCall.name)]
              /\ lastCall.result = LocationOfRow(lastWrite[Normalize(lastCall.name)])

\* a record with coordinates was resolved (and written to the JSON map), then
\* overwritten by one with null coordinates: the lookup returns null
C14_Witness ==
    /\ lastCall.op = "getLocationFromMusicBrainzDB"
    /\ lastCall.queried
    /\ lastWrite[AirKey] # Absent
    /\ lastCall.row = lastWrite[AirKey]
    /\ lastCall.row.lat = NullNum
    /\ lastCall.row.lng = NullNum
    /\ lastCall.result = NullLoc
    /\ jsonFile[AirKey] # Absent

\* C15: every record has lat and lng both set or both null, whichever of
\* the import and geocoding scripts wrote it.
C15_CoordinatesArePaired ==
    \A r \in artists : (r.lat = NullNum) <=> (r.lng = NullNum)

C17_FailureNotCached ==
    [][\A n \in ArtistNames :
          ArtistLocationCall(n) =>
              /\ (/\ ~CacheHas(locationCache, n)
                  /\ ~lastCall'.up
                  /\ (~db \/ specialCases(Normalize(n)) = NullLoc))
                     => /\ lastCall'.result = Thrown
                        /\ locationCache' = locationCache
                        /\ first' = first
                        /\ jsonFile' = jsonFile
              /\ (/\ lastCall.op = "getArtistLocation"
                  /\ lastCall.name = n
                  /\ lastCall.result = Thrown
                  /\ lastCall'.up
                  /\ specialCases(Normalize(n)) = NullLoc)
                     => /\ lastCall'.queried
                        /\ lastCall'.result = LocationOfRow(
                               SelectByNormalizedName(artists, Normalize(n)))]_vars

\* the record of Air has coordinates, the store was down: the call threw and
\* the cache has nothing for Air
C17_Witness ==
    /\ lastCall.op = "getArtistLocation"
    /\ lastCall.name = AirName
    /\ ~lastCall.up
    /\ lastCall.result = Thrown
    /\ locationCache[AirName] = Absent
    /\ SelectByNormalizedName(artists, AirKey) # NoRow
    /\ LocationOfRow(SelectByNormalizedName(artists, AirKey)) # NullLoc

HasAreaInfo(r) == Truthy(r.area_name) \/ Truthy(r.begin_area_name)

\* C18 as stated: getArtistsWithoutCoordinates lists exactly the records with
\* area information and null coordinates (read for the records whose
\* coordinates are both set or both null).
C18_ListsAreaWithoutCoordinates ==
    (lastCall.op = "getArtistsWithoutCoordinates" /\ lastCall.result # Thrown)
        => \A r \in artists :
               ((r.lat = NullNum) <=> (r.lng = NullNum))
                   => (r.name \in lastCall.result.names
                          <=> (HasAreaInfo(r) /\ r.lat = NullNum))

\* C18 amended: getArtistsWithoutCoordinates lists exactly the names of the
\* records whose lat or lng is null, with or without area information; a
\* record with both coordinates is never listed.
C18_ListsMissingCoordinates ==
    (lastCall.op = "getArtistsWithoutCoordinates" /\ lastCall.result # Thrown)
        => /\ \A r \in artists :
                  r.name \in lastCall.result.names
                      <=> (r.lat = NullNum \/ r.lng = NullNum)
           /\ lastCall.result.names \subseteq {r.name : r \in artists}

\* listed: a record without area information and a record with one
\* coordinate; not listed: nothing else
C18_Witness ==
    /\ lastCall.op = "getArtistsWithoutCoordinates"
    /\ lastCall.result # Thrown
    /\ \E r \in artists :
          /\ ~HasAreaInfo(r)
          /\ r.lat = NullNum
          /\ r.lng = NullNum
          /\ r.name \in lastCall.result.names
    /\ \E r \in artists :
          /\ r.lat # NullNum
          /\ r.lng # NullNum
          /\ r.name \notin lastCall.result.names

\* C19: saveLocationToMusicBrainzDB calls on different normalized keys, in
\* any order, do not disturb each other: a write to one key leaves the record
\* under every other key as it was, which is the record of the last write
\* addressed to that key.
C19_KeysIndependent ==
    [][(lastCall' # lastCall /\ lastCall'.op = "saveLocationToMusicBrainzDB")
          => \A k \in Keys :
                 k # Normalize(lastCall'.name)
                     => /\ SelectByNormalizedName(artists', k)
                            = SelectByNormalizedName(artists, k)
                        /\ lastWrite[k] # Absent
                               => SelectByNormalizedName(artists', k) = lastWrite[k]]_vars

\* M.I.A. was written over an earlier record of hers while Air holds another
\* record, the one last written for Air
C19_Witness ==
    /\ lastCall.op = "saveLocationToMusicBrainzDB"
    /\ lastCall.name = MiaName
    /\ lastCall.before # NoRow
    /\ lastCall.row # NoRow
    /\ lastCall.before.lat # lastCall.row.lat
    /\ lastWrite[AirKey] # Absent
    /\ SelectByNormalizedName(artists, AirKey) = lastWrite[AirKey]
    /\ SelectByNormalizedName(artists, MiaKey) = lastCall.row
    /\ lastWrite[AirKey].lat # lastCall.row.lat

\* C20: for a record with coordinates whose stored city and country are both
\* present, different, the city not a recognized country and the country a
\* recognized one, the lookup returns the stored city and country unchanged,
\* whatever area_name, begin_area_name, country_code and the coordinates are.
C20_TrustedPairFirst ==
    (/\ Resolved
     /\ lastCall.row.city \notin {Null, ""}
     /\ lastCall.row.country \notin {Null, ""}
     /\ lastCall.row.city # lastCall.row.country
     /\ lastCall.row.city \notin knownCountries
     /\ lastCall.row.country \in knownCountries)
        => /\ lastCall.result.city = lastCall.row.city
           /\ lastCall.result.country = lastCall.row.country

\* Austin, United States is returned for a record whose area fields say
\* London, United Kingdom, code GB, and whose coordinates are in the UK box
C20_Witness ==
    /\ Resolved
    /\ lastCall.row.city = "Austin"
    /\ lastCall.row.country = "United States"
    /\ lastCall.row.begin_area_name = "London"
    /\ lastCall.row.area_name = "United Kingdom"
    /\ lastCall.row.country_code = "GB"
    /\ InUKBox(lastCall.row.lat, lastCall.row.lng)
    /\ lastCall.result.city = "Austin"
    /\ lastCall.result.country = "United States"

\* C21: session-cache entries are never evicted or invalidated: a
\* saveLocationToMusicBrainzDB write leaves the cache as it is, and once a
\* result (null included) is cached for a name, getArtistLocation returns
\* that result for the name without asking the store, whatever was written
\* for the artist since.
C21_CacheNeverInvalidated ==
    [][/\ (lastCall' # lastCall /\ lastCall'.op = "saveLocationToMusicBrainzDB")
            => locationCache' = locationCache
       /\ \A n \in ArtistNames :
              (ArtistLocationCall(n) /\ locationCache[n] # Absent)
                  => /\ lastCall'.result = locationCache[n]
                     /\ ~lastCall'.queried
                     /\ locationCache' = locationCache]_vars

\* null was cached for Air before a record with coordinates was written for
\* Air: getArtistLocation still answers null
C21_Witness ==
    /\ lastCall.op = "getArtistLocation"
    /\ lastCall.name = AirName
    /\ ~lastCall.queried
    /\ lastCall.result = NullLoc
    /\ locationCache[AirName] = NullLoc
    /\ SelectByNormalizedName(artists, AirKey) # NoRow
    /\ LocationOfRow(SelectByNormalizedName(artists, AirKey)) # NullLoc

\* C22: the override table is consulted before any store access: a lookup of
\* an overridden name returns the override without opening or querying the
\* store, so it succeeds also when the store is unavailable.
C22_OverrideBeforeStore ==
    [][(/\ lastCall' # lastCall
        /\ lastCall'.op \in {"getLocationFromMusicBrainzDB", "getArtistLocation"}
        /\ specialCases(Normalize(lastCall'.name)) # NullLoc)
           => /\ lastCall'.result = specialCases(Normalize(lastCall'.name))
              /\ ~lastCall'.queried
              /\ db' = db]_vars

\* C23: saveLocationToDB rewrites the JSON location file only when the
\* location is new or different: a getArtistLocation call that saves a location
\* whose lat, lng, city and country equal those stored under the normalized
\* key does not rewrite the file.
C23_RewriteOnlyIfDifferent ==
    [][\A n \in ArtistNames :
          (/\ ArtistLocationCall(n)
           /\ dbLoaded
           /\ locationDB[Normalize(n)] = lastCall'.result)
              => ~lastCall'.wrote]_vars

\* C24: getArtistLocation runs its cache check, store lookup and cache fill
\* in one step (the async function has no await), so two calls for the same
\* uncached name issued together run one after the other: when the first
\* returns, the second is answered by the cache, without a store query and
\* without a file write, and returns the same result.
C24_NoInterleaving ==
    [][\A n \in ArtistNames :
          (/\ ArtistLocationCall(n)
           /\ lastCall.op = "getArtistLocation"
           /\ lastCall.name = n
           /\ lastCall.result # Thrown)
              => /\ ~lastCall'.queried
                 /\ ~lastCall'.wrote
                 /\ lastCall'.result = lastCall.result
                 /\ db' = db]_vars

\* the second of two calls for Air: the record was read once, by the first
C24_Witness ==
    /\ lastCall.op = "getArtistLocation"
    /\ lastCall.name = AirName
    /\ ~lastCall.queried
    /\ ~lastCall.wrote
    /\ lastCall.result # NullLoc
    /\ lastCall.result = locationCache[AirName]
    /\ lastCall.result = LocationOfRow(SelectByNormalizedName(artists, AirKey))
    /\ jsonFile[AirKey] = lastCall.result

\* C25: a stored record whose lat and lng are both non-null numbers resolves
\* to a non-null location with exactly those coordinates, a latitude or
\* longitude of 0 included.
C25_CoordinatesResolve ==
    (/\ lastCall.op = "getLocationFromMusicBrainzDB"
     /\ lastCall.result # Thrown
     /\ lastCall.row # NoRow
     /\ lastCall.row.lat # NullNum
     /\ lastCall.row.lng # NullNum)
        => /\ lastCall.result.kind = "loc"
           /\ lastCall.result.lat = lastCall.row.lat
           /\ lastCall.result.lng = lastCall.row.lng

\* C26: the returned city is never the raw country_code of the record: for a
\* record whose country_code is none of its stored names, no precedence
\* branch and no later pass puts the code in the city field.
C26_CityNeverCode ==
    (/\ Resolved
     /\ Truthy(lastCall.row.country_code)
     /\ lastCall.row.country_code \notin
            {lastCall.row.city, lastCall.row.country,
             lastCall.row.area_name, lastCall.row.begin_area_name})
        => lastCall.result.city # lastCall.row.country_code

\* C27: getLocationFromMusicBrainzDB returns null or an object with numeric
\* lat and lng, and a name that is not in the override table and has no
\* stored row yields null, names such as 'constructor' and '__proto__'
\* included.
C27_NullOrLocation ==
    (lastCall.op = "getLocationFromMusicBrainzDB" /\ lastCall.result # Thrown)
        => /\ lastCall.result.kind \in {"null", "loc"}
           /\ (/\ Normalize(lastCall.name) \notin {MiaKey, MiaKey2}
               /\ SelectByNormalizedName(artists, Normalize(lastCall.name)) = NoRow)
                  => lastCall.result = NullLoc

\* C28: after an export, every stored record with coordinates has an entry
\* in the exported file whose (city, country) pair equals the pair the
\* server lookup returns for that record
C28_ExportAgreesWithServer ==
    (lastCall.op = "exportToJSON" /\ lastCall.result # Thrown) =>
        \A r \in artists :
            HasCoordinates(r) =>
                LET c == getLocationFromMusicBrainzClient(lastCall.result.map, r.name)
                    s == LocationOfRow(r)
                IN  /\ c.kind = "loc"
                    /\ c.city = s.city
                    /\ c.country = s.country

\* a step of the geocoding script that saved coordinates
GeocodeSaved ==
    /\ \E n \in WriterNames, c \in GeocoderAnswers, up \in BOOLEAN :
            GeocodeMissing(n, c, up)
    /\ lastCall'.op = "saveLocationToMusicBrainzDB"
    /\ lastCall'.result # Thrown

\* C29: a geocoding step that saves coordinates for an artist with a record
\* leaves the record's mbid, area_name, begin_area_name and country_code as
\* they were before the step
C29_GeocodingOnlyAddsCoordinates ==
    [][GeocodeSaved =>
        LET before == lastCall'.before
            after == SelectByNormalizedName(artists', Normalize(lastCall'.name))
        IN  before # NoRow =>
                /\ after.mbid = before.mbid
                /\ after.area_name = before.area_name
                /\ after.begin_area_name = before.begin_area_name
                /\ after.country_code = before.country_code]_vars

\* the start indices 0, batchSize, 2 * batchSize, ... below n
StartIndices(n) ==
    [k \in 1..((n + batchSize - 1) \div batchSize) |-> (k - 1) * batchSize]

\* the requests sent so far are the first start indices below totalArtists,
\* each once and in order, failed batches included; when the loop has ended
\* they are all of them and the start index has reached totalArtists
C30_Coverage ==
    /\ Len(requested) <= Len(StartIndices(totalArtists))
    /\ \A k \in 1..Len(requested) : requested[k] = StartIndices(totalArtists)[k]
    /\ skipped \subseteq {requested[k] : k \in 1..Len(requested)}
    /\ fetchState = "done" =>
            /\ requested = StartIndices(totalArtists)
            /\ startIndex >= totalArtists

\* C30: the background fetch requests the batches at start indices 0, 25,
\* 50, ... below the length of the list, each exactly once whether or not it
\* failed, and the loop ends
C30_FetchCoversAndTerminates == []C30_Coverage /\ <>(fetchState = "done")

\* a list of 60 artists fetched in three batches, the second of which failed
C30_Witness ==
    /\ fetchState = "done"
    /\ totalArtists = 60
    /\ requested = <<0, 25, 50>>
    /\ skipped = {25}

====
